---- MODULE Spec2Model ----
(***************************************************************************)
(* State-machine model of src/pro1/game2.py (Player, Enemy, Bullet, Game). *)
(*                                                                         *)
(* Positions are whole pixels.  Every input of the model (spawn points,    *)
(* pointer positions, the keys a and d) lies on the player's row, where    *)
(* the float arithmetic of the source is exact; off-row vectors are        *)
(* rounded to the nearest pixel by Axis.                                   *)
(*                                                                         *)
(* Tk's after(ms, f) runs f no earlier than ms from now, pending callbacks *)
(* run in the order of their due times, equal due times in the order of    *)
(* registration.  timers is the list of pending callbacks in due order:    *)
(* a callback registered with delay ms is due after every pending one      *)
(* whose delay was <= ms, and anywhere among the others.                   *)
(***************************************************************************)
EXTENDS Integers, Sequences, FiniteSets

VARIABLES px, py, health, enemies, bullets, pressed_keys, mouse,
          is_game_over, score, score_text, lives_text, bound, timers,
          pc, snapshot, idx, items, overlays, close_msgs,
          spawned, shots, ticks, inputs, error

vars == <<px, py, health, enemies, bullets, pressed_keys, mouse,
          is_game_over, score, score_text, lives_text, bound, timers,
          pc, snapshot, idx, items, overlays, close_msgs,
          spawned, shots, ticks, inputs, error>>

(* ---------------- bounds of the exploration ---------------- *)
\* Spec: a short game with every input
MaxTicks == 2
MaxSpawnTicks == 1
MaxBullets == 1
MaxInputs == 2
\* SpecWalk: a long game in which the player walks to the left edge
WalkTicks == 20
WalkSpawnTicks == 1
WalkBullets == 1
WalkInputs == 2

(* ---------------- program constants ---------------- *)
StartX == 100
StartY == 100
PlayerSpeed == 5
StartHealth == 3
EnemySpeed == 2
BulletSpeed == 10
HitRadius == 20
Width == 800
Height == 600
SpawnCount == 3
UpdateDelay == 50
MoveDelay == 50
ShootDelay == 500
SpawnDelay == 5000
CloseDelay == 5000

(* ---------------- input sets ---------------- *)
Keys == {"a", "d"}
SpawnPoints == {<<110, 100>>, <<130, 100>>}
MousePoints == {<<0, 100>>, <<200, 100>>}
WalkKeys == {"a"}
WalkSpawnPoints == {<<130, 100>>}
WalkMousePoints == {<<0, 100>>}

(* ---------------- geometry ---------------- *)
Sq(n) == n * n

Sign(n) == IF n > 0 THEN 1 ELSE IF n < 0 THEN -1 ELSE 0

Max(S) == CHOOSE m \in S : \A n \in S : n <= m

\* math.hypot(dx, dy) < r, for r >= 0
HypotLess(dx, dy, r) == Sq(dx) + Sq(dy) < Sq(r)

\* (d / max(hypot(d, e), 1)) * speed, to the nearest pixel
Axis(d, e, speed) ==
    LET h2 == IF Sq(d) + Sq(e) < 1 THEN 1 ELSE Sq(d) + Sq(e)
    IN  Sign(d) * Max({s \in 0..speed :
                         s = 0 \/ Sq(2 * s - 1) * h2 <= 4 * Sq(speed) * Sq(d)})

\* Enemy.move_towards
move_towards(e, tx, ty) ==
    [e EXCEPT !.x = e.x + Axis(tx - e.x, ty - e.y, EnemySpeed),
              !.y = e.y + Axis(ty - e.y, tx - e.x, EnemySpeed)]

AbsVal(n) == IF n < 0 THEN -n ELSE n

\* move_towards with the fault of dividing by the distance itself, without the
\* floor of 1 that max() puts under it
move_towards_fine_NoClamp(e, tx, ty, res) ==
    [e EXCEPT !.x = e.x + Sign(tx - e.x) * EnemySpeed * res,
              !.y = e.y + Sign(ty - e.y) * EnemySpeed * res]

\* Enemy.move_towards on positions held in 1/res pixels, for an enemy on the
\* target's row or column, where the arithmetic is exact: the distance is the
\* offset's size d, the divisor max(d, 1) is max(d, res) / res, so the step
\* (offset / divisor) * speed is speed pixels for d >= 1 pixel and
\* offset * speed below that
StepFine(d, res) ==
    IF AbsVal(d) >= res THEN Sign(d) * EnemySpeed * res ELSE d * EnemySpeed

move_towards_fine(e, tx, ty, res) ==
    [e EXCEPT !.x = e.x + StepFine(tx - e.x, res),
              !.y = e.y + StepFine(ty - e.y, res)]

\* Enemy.is_hit
is_hit(e, bx, by) == HypotLess(e.x - bx, e.y - by, HitRadius)

\* Bullet.is_in_bounds
is_in_bounds(b) == 0 <= b.x /\ b.x <= Width /\ 0 <= b.y /\ b.y <= Height

\* NewBullet with the fault of atan2's arguments swapped
NewBullet_SwappedAtan2(id, sx, sy, tx, ty) ==
    [id |-> id, x |-> sx, y |-> sy,
     dx |-> IF tx = sx /\ ty = sy THEN BulletSpeed
            ELSE Axis(ty - sy, tx - sx, BulletSpeed),
     dy |-> IF tx = sx /\ ty = sy THEN 0
            ELSE Axis(tx - sx, ty - sy, BulletSpeed),
     alive |-> TRUE]

\* Bullet.__init__, before its call of move: atan2(0, 0) = 0
NewBullet(id, sx, sy, tx, ty) ==
    [id |-> id, x |-> sx, y |-> sy,
     dx |-> IF tx = sx /\ ty = sy THEN BulletSpeed
            ELSE Axis(tx - sx, ty - sy, BulletSpeed),
     dy |-> IF tx = sx /\ ty = sy THEN 0
            ELSE Axis(ty - sy, tx - sx, BulletSpeed),
     alive |-> TRUE]

(* ---------------- collections ---------------- *)
Ids(s) == {s[i].id : i \in 1..Len(s)}

Find(s, id) == s[CHOOSE i \in 1..Len(s) : s[i].id = id]

Without(s, id) == SelectSeq(s, LAMBDA r : r.id # id)

Replace(s, r) == [i \in 1..Len(s) |-> IF s[i].id = r.id THEN r ELSE s[i]]

EnemyItem(id) == <<"enemy", id>>

BulletItem(id) == <<"bullet", id>>

(* ---------------- timer service ---------------- *)
Timer(cb, arg, ms) == [cb |-> cb, arg |-> arg, ms |-> ms]

InsertAt(q, i, t) == SubSeq(q, 1, i) \o <<t>> \o SubSeq(q, i + 1, Len(q))

\* the queues that registering t can give
After(q, t) ==
    LET first == Max({0} \cup {j \in 1..Len(q) : q[j].ms <= t.ms})
    IN  {InsertAt(q, i, t) : i \in first..Len(q)}

Fires(cb) == pc = "idle" /\ timers # <<>> /\ Head(timers).cb = cb

(* ---------------- Game.remove_enemy, Game.remove_bullet ---------------- *)
\* remove_enemy with the fault that every removal scores
remove_enemy_Scores(g, id) ==
    IF id \in Ids(g.enemies)
    THEN [g EXCEPT !.items = @ \ {EnemyItem(id)},
                   !.enemies = Without(@, id),
                   !.score = @ + 1,
                   !.score_text = g.score + 1]
    ELSE [g EXCEPT !.items = @ \ {EnemyItem(id)},
                   !.error = "ValueError"]

\* remove_enemy with the fault of calling list.remove a second time
remove_enemy_Twice(g, id) ==
    [g EXCEPT !.items = @ \ {EnemyItem(id)},
              !.enemies = Without(@, id),
              !.score_text = g.score,
              !.error = "ValueError"]

\* g is the part of the game a bullet's move can change
remove_enemy(g, id) ==
    IF id \in Ids(g.enemies)
    THEN [g EXCEPT !.items = @ \ {EnemyItem(id)},
                   !.enemies = Without(@, id),
                   !.score_text = g.score]
    ELSE [g EXCEPT !.items = @ \ {EnemyItem(id)},
                   !.error = "ValueError"]

\* remove_bullet with the fault of leaving the bullet's canvas item in place
remove_bullet_KeepsVisual(g, id) ==
    IF id \in Ids(g.bullets)
    THEN [g EXCEPT !.bullets = Without(@, id)]
    ELSE g

remove_bullet(g, id) ==
    IF id \in Ids(g.bullets)
    THEN [g EXCEPT !.items = @ \ {BulletItem(id)},
                   !.bullets = Without(@, id)]
    ELSE g

(* ---------------- Bullet.check_collision, Bullet.move ---------------- *)
\* the enemies of the iteration that the bullet at (bx, by) hits, in list order
HitIndexes(es, bx, by) == {i \in 1..Len(es) : is_hit(es[i], bx, by)}

Min(S) == CHOOSE m \in S : \A n \in S : m <= n

\* check_collision with the fault of removing the enemy hit without scoring
check_collision_NoScore(g, b) ==
    LET hits == HitIndexes(g.enemies, b.x, b.y)
    IN  IF hits = {} THEN g
        ELSE LET g1 == remove_enemy(g, g.enemies[Min(hits)].id)
             IN  remove_bullet(g1, b.id)

\* Bullet.check_collision of bullet b (already moved): only the first enemy hit
check_collision(g, b) ==
    LET hits == HitIndexes(g.enemies, b.x, b.y)
    IN  IF hits = {} THEN g
        ELSE LET g1 == remove_enemy(g, g.enemies[Min(hits)].id)
                 g2 == remove_bullet(g1, b.id)
             IN  [g2 EXCEPT !.score = @ + 1, !.score_text = g2.score + 1]

\* the alive flag of bullet b after the calls of remove_bullet made on game g0 up to g1
AliveAfter(g0, g1, b) ==
    IF b.id \in Ids(g0.bullets) /\ b.id \notin Ids(g1.bullets) THEN FALSE ELSE b.alive

\* move with the fault of leaving out the is_game_over test of line 77
move_IgnoresGameOver(g, b) ==
    IF ~b.alive
    THEN [g |-> g, b |-> b, again |-> FALSE]
    ELSE LET b1 == [b EXCEPT !.x = b.x + b.dx, !.y = b.y + b.dy]
             gm == [g EXCEPT !.bullets = Replace(@, b1)]
         IN  IF ~is_in_bounds(b1)
             THEN LET g1 == remove_bullet(gm, b1.id)
                  IN  [g |-> g1,
                       b |-> [b1 EXCEPT !.alive = AliveAfter(gm, g1, b1)],
                       again |-> FALSE]
             ELSE LET g1 == check_collision(gm, b1)
                      b2 == [b1 EXCEPT !.alive = AliveAfter(gm, g1, b1)]
                  IN  [g |-> g1, b |-> b2, again |-> b2.alive]

\* move with the fault of adding the velocity twice in one call
move_StepsTwice(g, b) ==
    IF ~b.alive \/ g.over
    THEN [g |-> g, b |-> b, again |-> FALSE]
    ELSE LET b1 == [b EXCEPT !.x = b.x + 2 * b.dx, !.y = b.y + 2 * b.dy]
             gm == [g EXCEPT !.bullets = Replace(@, b1)]
         IN  IF ~is_in_bounds(b1)
             THEN LET g1 == remove_bullet(gm, b1.id)
                  IN  [g |-> g1,
                       b |-> [b1 EXCEPT !.alive = AliveAfter(gm, g1, b1)],
                       again |-> FALSE]
             ELSE LET g1 == check_collision(gm, b1)
                      b2 == [b1 EXCEPT !.alive = AliveAfter(gm, g1, b1)]
                  IN  [g |-> g1, b |-> b2, again |-> b2.alive]

\* Bullet.move of bullet object b on game g: the game after it, the bullet after it,
\* and whether it registered itself again
move(g, b) ==
    IF ~b.alive \/ g.over
    THEN [g |-> g, b |-> b, again |-> FALSE]
    ELSE LET b1 == [b EXCEPT !.x = b.x + b.dx, !.y = b.y + b.dy]
             gm == [g EXCEPT !.bullets = Replace(@, b1)]
         IN  IF ~is_in_bounds(b1)
             THEN LET g1 == remove_bullet(gm, b1.id)
                  IN  [g |-> g1,
                       b |-> [b1 EXCEPT !.alive = AliveAfter(gm, g1, b1)],
                       again |-> FALSE]
             ELSE LET g1 == check_collision(gm, b1)
                      b2 == [b1 EXCEPT !.alive = AliveAfter(gm, g1, b1)]
                  IN  [g |-> g1, b |-> b2, again |-> b2.alive]

\* the part of the state that move reads and writes
Game == [enemies |-> enemies, bullets |-> bullets, items |-> items,
         score |-> score, score_text |-> score_text, error |-> error,
         over |-> is_game_over]

SetGame(g) ==
    /\ enemies' = g.enemies
    /\ bullets' = g.bullets
    /\ items' = g.items
    /\ score' = g.score
    /\ score_text' = g.score_text
    /\ error' = g.error

(* ---------------- construction: Game.__init__ ---------------- *)
\* spawn_enemies(count) with the positions ps drawn by random.randint
spawn_enemies(es, first, ps) ==
    es \o [i \in 1..Len(ps) |-> [id |-> first + i, x |-> ps[i][1], y |-> ps[i][2]]]

\* the state after Game.__init__, its three first calls (lines 119-121) included
InitWith(points) ==
    /\ px = StartX
    /\ py = StartY
    /\ health = StartHealth
    /\ \E ps \in [1..SpawnCount -> points] : enemies = spawn_enemies(<<>>, 0, ps)
    /\ bullets = <<>>
    /\ pressed_keys = {}
    /\ mouse = <<>>
    /\ is_game_over = FALSE
    /\ score = 0
    /\ score_text = 0
    /\ lives_text = StartHealth
    /\ bound = TRUE
    /\ timers = <<Timer("update", 0, UpdateDelay), Timer("shoot", 0, ShootDelay),
                  Timer("spawn", 0, SpawnDelay)>>
    /\ pc = "idle"
    /\ snapshot = <<>>
    /\ idx = 0
    /\ items = {EnemyItem(i) : i \in 1..SpawnCount}
    /\ overlays = 0
    /\ close_msgs = 0
    /\ spawned = SpawnCount
    /\ shots = 0
    /\ ticks = 0
    /\ inputs = 0
    /\ error = "none"

(* ---------------- input events: setup_events, track_mouse ---------------- *)
KeyPress(k, maxInputs) ==
    /\ pc = "idle" /\ bound /\ inputs < maxInputs
    /\ pressed_keys' = pressed_keys \cup {k}
    /\ inputs' = inputs + 1
    /\ UNCHANGED <<px, py, health, enemies, bullets, mouse, is_game_over, score,
                   score_text, lives_text, bound, timers, pc, snapshot, idx, items,
                   overlays, close_msgs, spawned, shots, ticks, error>>

KeyRelease(k, maxInputs) ==
    /\ pc = "idle" /\ bound /\ inputs < maxInputs
    /\ pressed_keys' = pressed_keys \ {k}
    /\ inputs' = inputs + 1
    /\ UNCHANGED <<px, py, health, enemies, bullets, mouse, is_game_over, score,
                   score_text, lives_text, bound, timers, pc, snapshot, idx, items,
                   overlays, close_msgs, spawned, shots, ticks, error>>

\* track_mouse with the fault of staying bound after game_over
track_mouse_Unbound(p, maxInputs) ==
    /\ pc = "idle" /\ inputs < maxInputs
    /\ mouse' = p
    /\ inputs' = inputs + 1
    /\ UNCHANGED <<px, py, health, enemies, bullets, pressed_keys, is_game_over,
                   score, score_text, lives_text, bound, timers, pc, snapshot, idx,
                   items, overlays, close_msgs, spawned, shots, ticks, error>>

track_mouse(p, maxInputs) ==
    /\ pc = "idle" /\ bound /\ inputs < maxInputs
    /\ mouse' = p
    /\ inputs' = inputs + 1
    /\ UNCHANGED <<px, py, health, enemies, bullets, pressed_keys, is_game_over,
                   score, score_text, lives_text, bound, timers, pc, snapshot, idx,
                   items, overlays, close_msgs, spawned, shots, ticks, error>>

(* ---------------- Game.update ---------------- *)
In(k) == IF k \in pressed_keys THEN 1 ELSE 0

\* lines 152-157 and the snapshot enemies[:] of line 159
UpdateBegin(maxTicks) ==
    /\ Fires("update")
    /\ timers' = Tail(timers)
    /\ IF is_game_over
       THEN UNCHANGED <<px, py, pc, snapshot, idx, ticks>>
       ELSE /\ ticks < maxTicks
            /\ px' = px + (In("d") - In("a")) * PlayerSpeed
            /\ py' = py + (In("s") - In("w")) * PlayerSpeed
            /\ pc' = "update"
            /\ snapshot' = enemies
            /\ idx' = 1
            /\ ticks' = ticks + 1
    /\ UNCHANGED <<health, enemies, bullets, pressed_keys, mouse, is_game_over,
                   score, score_text, lives_text, bound, items, overlays,
                   close_msgs, spawned, shots, inputs, error>>

\* Collides with the fault of comparing the squared distance with the radius
Collides_NoSqrt(m) == Sq(px - m.x) + Sq(py - m.y) < HitRadius

\* Player.check_collision(enemy), enemy already moved to m
Collides(m) == HypotLess(px - m.x, py - m.y, HitRadius)

\* UpdateEnemy with the fault of checking the collision before the enemy's move
UpdateEnemy_CheckFirst ==
    /\ pc = "update" /\ idx <= Len(snapshot)
    /\ LET e == snapshot[idx]
           cur == IF e.id \in Ids(enemies) THEN Find(enemies, e.id) ELSE e
           m == move_towards(cur, px, py)
           moved == [Game EXCEPT !.enemies = Replace(@, m)]
       IN  IF Collides(cur)
           THEN /\ health' = health - 1
                /\ lives_text' = health - 1
                /\ IF health - 1 <= 0
                   THEN /\ is_game_over' = TRUE
                        /\ overlays' = overlays + 1
                        /\ bound' = FALSE
                        /\ timers' \in After(timers, Timer("close", 0, CloseDelay))
                   ELSE UNCHANGED <<is_game_over, overlays, bound, timers>>
                /\ LET g == remove_enemy(moved, m.id)
                   IN  /\ SetGame(g)
                       /\ IF m.id \notin Ids(enemies)
                          THEN pc' = "idle" /\ snapshot' = <<>> /\ idx' = 0
                          ELSE pc' = pc /\ snapshot' = snapshot /\ idx' = idx + 1
           ELSE /\ SetGame(moved)
                /\ idx' = idx + 1
                /\ UNCHANGED <<health, lives_text, is_game_over, overlays, bound,
                               timers, pc, snapshot>>
    /\ UNCHANGED <<px, py, pressed_keys, mouse, close_msgs, spawned, shots, ticks,
                   inputs>>

\* one iteration of the loop of lines 159-162, Player.check_collision and
\* Game.game_over included
UpdateEnemy ==
    /\ pc = "update" /\ idx <= Len(snapshot)
    /\ LET e == snapshot[idx]
           cur == IF e.id \in Ids(enemies) THEN Find(enemies, e.id) ELSE e
           m == move_towards(cur, px, py)
           moved == [Game EXCEPT !.enemies = Replace(@, m)]
       IN  IF Collides(m)
           THEN /\ health' = health - 1
                /\ lives_text' = health - 1
                /\ IF health - 1 <= 0
                   THEN /\ is_game_over' = TRUE
                        /\ overlays' = overlays + 1
                        /\ bound' = FALSE
                        /\ timers' \in After(timers, Timer("close", 0, CloseDelay))
                   ELSE UNCHANGED <<is_game_over, overlays, bound, timers>>
                /\ LET g == remove_enemy(moved, m.id)
                   IN  /\ SetGame(g)
                       /\ IF m.id \notin Ids(enemies)
                          THEN pc' = "idle" /\ snapshot' = <<>> /\ idx' = 0
                          ELSE pc' = pc /\ snapshot' = snapshot /\ idx' = idx + 1
           ELSE /\ SetGame(moved)
                /\ idx' = idx + 1
                /\ UNCHANGED <<health, lives_text, is_game_over, overlays, bound,
                               timers, pc, snapshot>>
    /\ UNCHANGED <<px, py, pressed_keys, mouse, close_msgs, spawned, shots, ticks,
                   inputs>>

\* line 164
UpdateEnd ==
    /\ pc = "update" /\ idx > Len(snapshot)
    /\ timers' \in After(timers, Timer("update", 0, UpdateDelay))
    /\ pc' = "idle"
    /\ snapshot' = <<>>
    /\ idx' = 0
    /\ UNCHANGED <<px, py, health, enemies, bullets, pressed_keys, mouse,
                   is_game_over, score, score_text, lives_text, bound, items,
                   overlays, close_msgs, spawned, shots, ticks, inputs, error>>

(* ---------------- Game.shoot_continuously, Player.shoot ---------------- *)
\* Player.shoot: the Bullet constructor, its first move included
shoot(g, id, tx, ty) ==
    LET b0 == NewBullet(id, px, py, tx, ty)
    IN  move([g EXCEPT !.items = @ \cup {BulletItem(id)}], b0)

ShootTick(maxBullets) ==
    /\ Fires("shoot")
    /\ IF ~is_game_over /\ mouse # <<>>
       THEN /\ shots < maxBullets
            /\ LET r == shoot(Game, shots + 1, mouse[1], mouse[2])
               IN  /\ SetGame([r.g EXCEPT !.bullets = Append(@, r.b)])
                   /\ \E q \in (IF r.again
                                THEN After(Tail(timers), Timer("move", r.b.id, MoveDelay))
                                ELSE {Tail(timers)}) :
                         timers' \in After(q, Timer("shoot", 0, ShootDelay))
            /\ shots' = shots + 1
       ELSE /\ timers' \in After(Tail(timers), Timer("shoot", 0, ShootDelay))
            /\ UNCHANGED <<enemies, bullets, items, score, score_text, error, shots>>
    /\ UNCHANGED <<px, py, health, pressed_keys, mouse, is_game_over, lives_text,
                   bound, pc, snapshot, idx, overlays, close_msgs, spawned, ticks,
                   inputs>>

(* ---------------- a bullet's move callback ---------------- *)
BulletMove ==
    /\ Fires("move")
    /\ LET id == Head(timers).arg
           b == Find(bullets, id)
           r == move(Game, b)
       IN  IF id \in Ids(bullets)
           THEN /\ SetGame(r.g)
                /\ timers' \in (IF r.again
                                THEN After(Tail(timers), Timer("move", id, MoveDelay))
                                ELSE {Tail(timers)})
           ELSE \* a bullet that left the collection has alive = False (line 183)
                /\ timers' = Tail(timers)
                /\ UNCHANGED <<enemies, bullets, items, score, score_text, error>>
    /\ UNCHANGED <<px, py, health, pressed_keys, mouse, is_game_over, lives_text,
                   bound, pc, snapshot, idx, overlays, close_msgs, spawned, shots,
                   ticks, inputs>>

\* the rectangle random.randint draws the spawn positions from (line 137)
SpawnMinX == 50
SpawnMaxX == 750
SpawnMinY == 50
SpawnMaxY == 550

\* spawn_enemies_periodically with the fault of not testing is_game_over
SpawnTick_IgnoresGameOver(points, maxSpawnTicks) ==
    /\ Fires("spawn")
    /\ spawned < SpawnCount * (maxSpawnTicks + 1)
    /\ \E ps \in [1..SpawnCount -> points] :
          enemies' = spawn_enemies(enemies, spawned, ps)
    /\ items' = items \cup {EnemyItem(spawned + i) : i \in 1..SpawnCount}
    /\ spawned' = spawned + SpawnCount
    /\ timers' \in After(Tail(timers), Timer("spawn", 0, SpawnDelay))
    /\ UNCHANGED <<px, py, health, bullets, pressed_keys, mouse, is_game_over, score,
                   score_text, lives_text, bound, pc, snapshot, idx, overlays,
                   close_msgs, shots, ticks, inputs, error>>

(* ---------------- Game.spawn_enemies_periodically ---------------- *)
SpawnTick(points, maxSpawnTicks) ==
    /\ Fires("spawn")
    /\ IF ~is_game_over
       THEN /\ spawned < SpawnCount * (maxSpawnTicks + 1)
            /\ \E ps \in [1..SpawnCount -> points] :
                  enemies' = spawn_enemies(enemies, spawned, ps)
            /\ items' = items \cup {EnemyItem(spawned + i) : i \in 1..SpawnCount}
            /\ spawned' = spawned + SpawnCount
            /\ timers' \in After(Tail(timers), Timer("spawn", 0, SpawnDelay))
       ELSE /\ timers' = Tail(timers)
            /\ UNCHANGED <<enemies, items, spawned>>
    /\ UNCHANGED <<px, py, health, bullets, pressed_keys, mouse, is_game_over, score,
                   score_text, lives_text, bound, pc, snapshot, idx, overlays,
                   close_msgs, shots, ticks, inputs, error>>

(* ---------------- Game.show_close_message ---------------- *)
show_close_message ==
    /\ Fires("close")
    /\ timers' = Tail(timers)
    /\ close_msgs' = close_msgs + 1
    /\ UNCHANGED <<px, py, health, enemies, bullets, pressed_keys, mouse,
                   is_game_over, score, score_text, lives_text, bound, pc, snapshot,
                   idx, items, overlays, spawned, shots, ticks, inputs, error>>

Init == InitWith(SpawnPoints)

Next ==
    \/ \E k \in Keys : KeyPress(k, MaxInputs)
    \/ \E k \in Keys : KeyRelease(k, MaxInputs)
    \/ \E p \in MousePoints : track_mouse(p, MaxInputs)
    \/ UpdateBegin(MaxTicks)
    \/ UpdateEnemy
    \/ UpdateEnd
    \/ ShootTick(MaxBullets)
    \/ BulletMove
    \/ SpawnTick(SpawnPoints, MaxSpawnTicks)
    \/ show_close_message

Spec == Init /\ [][Next]_vars

InitWalk == InitWith(WalkSpawnPoints)

NextWalk ==
    \/ \E k \in WalkKeys : KeyPress(k, WalkInputs)
    \/ \E k \in WalkKeys : KeyRelease(k, WalkInputs)
    \/ \E p \in WalkMousePoints : track_mouse(p, WalkInputs)
    \/ UpdateBegin(WalkTicks)
    \/ UpdateEnemy
    \/ UpdateEnd
    \/ ShootTick(WalkBullets)
    \/ BulletMove
    \/ SpawnTick(WalkSpawnPoints, WalkSpawnTicks)
    \/ show_close_message

SpecWalk == InitWalk /\ [][NextWalk]_vars

(* ---------------- the removal methods called from outside ---------------- *)
\* Game.remove_enemy(enemy) for any enemy object created so far
CallRemoveEnemy(id) ==
    /\ pc = "idle"
    /\ id \in 1..spawned
    /\ SetGame(remove_enemy(Game, id))
    /\ UNCHANGED <<px, py, health, pressed_keys, mouse, is_game_over, lives_text,
                   bound, timers, pc, snapshot, idx, overlays, close_msgs, spawned,
                   shots, ticks, inputs>>

\* Game.remove_bullet(bullet) for any bullet object created so far
CallRemoveBullet(id) ==
    /\ pc = "idle"
    /\ id \in 1..shots
    /\ SetGame(remove_bullet(Game, id))
    /\ UNCHANGED <<px, py, health, pressed_keys, mouse, is_game_over, lives_text,
                   bound, timers, pc, snapshot, idx, overlays, close_msgs, spawned,
                   shots, ticks, inputs>>

NextRemoval ==
    \/ Next
    \/ \E id \in 1..spawned : CallRemoveEnemy(id)
    \/ \E id \in 1..shots : CallRemoveBullet(id)

SpecRemoval == Init /\ [][NextRemoval]_vars

(* ======================= the claims ======================= *)

\* C1: game_over runs exactly once, on the tick in which health first reaches
\* <= 0, however many enemies are within the collision radius in that tick:
\* the overlay exists once if and only if health <= 0.
C1_GameOverExactlyOnce ==
    /\ overlays = (IF is_game_over THEN 1 ELSE 0)
    /\ is_game_over <=> health <= 0

\* C2: health is never negative: 0 <= health <= 3 in every reachable state.
C2_HealthRange == 0 <= health /\ health <= StartHealth

\* C3: once is_game_over is true no step changes a position, a collection,
\* health or score, the rest of the update tick that set the flag included.
C3_FrozenOnceOver ==
    [][is_game_over => UNCHANGED <<px, py, enemies, bullets, health, score>>]_vars

\* C4: after the tick in which health reached <= 0 has finished, every callback
\* leaves the enemy and bullet collections and every position as they are.
C4_NoOpAfterFinalTick ==
    [][(is_game_over /\ pc = "idle") => UNCHANGED <<px, py, enemies, bullets>>]_vars

\* C4 witness: the game is over, a bullet is still in the collection, and the
\* update, spawn, move and close callbacks have all run since (only the shoot
\* callback, registered again behind the close prompt, is pending).
C4_Witness ==
    /\ is_game_over /\ pc = "idle" /\ bullets # <<>> /\ enemies # <<>>
    /\ close_msgs = 1
    /\ Len(timers) = 1 /\ timers[1].cb = "shoot"

\* C5: remove_enemy of an enemy that is not in the enemy collection and
\* remove_bullet of a bullet that is not in the bullet collection raise no error
\* and leave both collections as they are.
C5_RemovalIdempotent ==
    [][/\ \A id \in 1..spawned :
             (id \notin Ids(enemies) /\ CallRemoveEnemy(id))
                 => (error' = error /\ enemies' = enemies /\ bullets' = bullets)
       /\ \A id \in 1..shots :
             (id \notin Ids(bullets) /\ CallRemoveBullet(id))
                 => (error' = error /\ enemies' = enemies /\ bullets' = bullets)]_vars

\* C6: a bullet removes at most one enemy and adds at most 1 to the score over
\* its lifetime, so the score never exceeds the number of bullets created.
C6_OneKillPerBullet == score <= shots

\* C7: between callbacks the bullet collection holds no out-of-bounds bullet,
\* the movement step run at creation included.
C7_NoBulletOutOfBounds ==
    pc = "idle" => \A i \in 1..Len(bullets) : is_in_bounds(bullets[i])

\* C8: the score starts at 0 and never decreases; a step adds exactly 1 to it
\* for each enemy that leaves the collection without costing health (a
\* bullet-enemy hit) and nothing otherwise; when a callback has finished the
\* displayed score is the score.
C8_Score ==
    /\ score = 0
    /\ [](pc = "idle" => score_text = score)
    /\ [][/\ score' >= score
          /\ score' = score + Cardinality(Ids(enemies) \ Ids(enemies'))
                            - (health - health')]_vars

\* C8 witness: a bullet has hit an enemy and the display shows the new score.
C8_Witness == pc = "idle" /\ score = 1 /\ score_text = 1

\* C9: in an update tick every enemy of the iteration is moved and checked once,
\* in order; at distance < 20 after its move health drops by exactly 1 and that
\* enemy alone leaves the collection, at distance >= 20 neither happens; health
\* changes in no other step; game_over runs only when the decremented health
\* is <= 0.
C9_CollisionRule ==
    [][/\ (pc = "update" /\ idx <= Len(snapshot)) =>
             LET id == snapshot[idx].id
                 m == move_towards(Find(enemies, id), px, py)
                 near == Sq(px - m.x) + Sq(py - m.y) < Sq(HitRadius)
             IN  /\ id \in Ids(enemies)
                 /\ idx' = idx + 1
                 /\ near => /\ health' = health - 1
                            /\ Ids(enemies') = Ids(enemies) \ {id}
                 /\ ~near => /\ health' = health
                             /\ Ids(enemies') = Ids(enemies)
                             /\ Find(enemies', id) = m
       /\ (pc = "update" /\ pc' = "idle") => idx = Len(snapshot) + 1
       /\ health' # health => (pc = "update" /\ health' = health - 1)
       /\ overlays' # overlays => (health' = health - 1 /\ health' <= 0)]_vars

\* C9 witness: in one tick an enemy has collided (a life lost, the enemy gone)
\* and another of the same iteration has not (still in the collection).
C9_Witness ==
    /\ pc = "idle" /\ spawned = SpawnCount /\ score = 0
    /\ health = StartHealth - 1 /\ Len(enemies) = SpawnCount - 1

\* C10: a shoot tick adds exactly one bullet, started at the player's position
\* and flying towards the last pointer position, when the game is not over and
\* a pointer position is recorded; otherwise it adds none.
C10_ShootTick ==
    [][(Fires("shoot") /\ timers' # timers) =>
          IF ~is_game_over /\ mouse # <<>>
          THEN /\ Len(bullets') = Len(bullets) + 1
               /\ SubSeq(bullets', 1, Len(bullets)) = bullets
               /\ LET b == bullets'[Len(bullets')]
                  IN  /\ b.x - b.dx = px /\ b.y - b.dy = py
                      /\ b.dx * (mouse[2] - py) = b.dy * (mouse[1] - px)
                      /\ b.dx * (mouse[1] - px) + b.dy * (mouse[2] - py) > 0
          ELSE bullets' = bullets]_vars

\* C10 witness: a shoot tick has added the one bullet created so far.
C10_Witness == pc = "idle" /\ shots = 1 /\ Len(bullets) = 1

\* a timer of callback cb is pending in the queue q
Pending(q, cb) == \E i \in DOMAIN q : q[i].cb = cb

\* C11: a spawn tick that runs while the game is not over appends exactly 3 new
\* enemies, each inside [50,750] x [50,550], and leaves a spawn timer pending; a
\* spawn tick that runs with the game over adds nothing and leaves no spawn timer
\* pending; and no step taken with the game over creates an enemy.
C11_SpawnTick ==
    [][/\ (Fires("spawn") /\ inputs' = inputs) =>
            IF ~is_game_over
            THEN /\ Len(enemies') = Len(enemies) + SpawnCount
                 /\ SubSeq(enemies', 1, Len(enemies)) = enemies
                 /\ \A i \in (Len(enemies) + 1)..Len(enemies') :
                       /\ enemies'[i].id \in (spawned + 1)..(spawned + SpawnCount)
                       /\ SpawnMinX <= enemies'[i].x /\ enemies'[i].x <= SpawnMaxX
                       /\ SpawnMinY <= enemies'[i].y /\ enemies'[i].y <= SpawnMaxY
                 /\ spawned' = spawned + SpawnCount
                 /\ Pending(timers', "spawn")
            ELSE /\ enemies' = enemies
                 /\ spawned' = spawned
                 /\ ~Pending(timers', "spawn")
       /\ is_game_over => (spawned' = spawned /\ Ids(enemies') \subseteq Ids(enemies))
      ]_vars

\* C11 witness: a spawn tick has added its batch while the game ran, and the
\* spawn tick after the game ended has left no spawn timer behind.
C11_Witness ==
    /\ pc = "idle" /\ is_game_over
    /\ spawned = 2 * SpawnCount
    /\ ~Pending(timers, "spawn")

\* C12: once the game is over no key press, key release or pointer motion is
\* accepted: no step taken with the game over changes the set of pressed keys or
\* the last pointer position, and the handlers are unbound whenever the game is
\* over between callbacks.
C12_InputsDetached ==
    [][/\ is_game_over => UNCHANGED <<pressed_keys, mouse>>
       /\ (is_game_over' /\ pc' = "idle") => ~bound'
      ]_vars

\* C12 witness: the game is over and the close prompt is shown; the pointer
\* position set before the end is still there, and an input event is left to try.
C12_Witness ==
    /\ pc = "idle" /\ is_game_over /\ ~bound
    /\ close_msgs >= 1
    /\ mouse # <<>>
    /\ inputs < MaxInputs

\* C13: the close-window prompt is displayed at most once in a run.
C13_ClosePromptOnce == close_msgs <= 1

(* ---------------- Enemy.move_towards on its own ---------------- *)
\* positions of this specification are in 1/Resolution pixels; the enemy starts
\* up to FineOffset units from the target on its row or column and move_towards
\* is called up to MoveCalls times
Resolution == 4
FineOffset == 24
MoveCalls == 2

InitMove ==
    /\ px = StartX * Resolution
    /\ py = StartY * Resolution
    /\ \E o \in (-FineOffset)..FineOffset : \E onRow \in BOOLEAN :
          enemies = <<[id |-> 1, x |-> IF onRow THEN px + o ELSE px,
                                 y |-> IF onRow THEN py ELSE py + o]>>
    /\ health = StartHealth
    /\ bullets = <<>>
    /\ pressed_keys = {}
    /\ mouse = <<>>
    /\ is_game_over = FALSE
    /\ score = 0
    /\ score_text = 0
    /\ lives_text = StartHealth
    /\ bound = TRUE
    /\ timers = <<>>
    /\ pc = "idle"
    /\ snapshot = <<>>
    /\ idx = 0
    /\ items = {EnemyItem(1)}
    /\ overlays = 0
    /\ close_msgs = 0
    /\ spawned = 1
    /\ shots = 0
    /\ ticks = 0
    /\ inputs = 0
    /\ error = "none"

\* one call enemy.move_towards(player.x, player.y)
MoveCall ==
    /\ ticks < MoveCalls
    /\ enemies' = <<move_towards_fine(enemies[1], px, py, Resolution)>>
    /\ ticks' = ticks + 1
    /\ UNCHANGED <<px, py, health, bullets, pressed_keys, mouse, is_game_over, score,
                   score_text, lives_text, bound, timers, pc, snapshot, idx, items,
                   overlays, close_msgs, spawned, shots, inputs, error>>

NextMove == MoveCall

SpecMove == InitMove /\ [][NextMove]_vars

\* the distance of the enemy to the target, in 1/Resolution pixels (one of the
\* two offsets is 0)
DistFine == AbsVal(enemies[1].x - px) + AbsVal(enemies[1].y - py)

\* C14 as stated: from every position distinct from the target one call of
\* move_towards takes exactly the speed off the distance and does not increase it.
C14_ExactlySpeedEverywhere ==
    [][DistFine > 0 =>
          /\ DistFine' = DistFine - EnemySpeed * Resolution
          /\ DistFine' <= DistFine]_vars

\* C14 amended: from a position at least the speed away one call of move_towards
\* takes exactly the speed off the distance; from a position closer than the
\* speed the enemy steps past the target, to the distance speed - d when d is at
\* least the clamp distance 1 and to the distance d when d is below it; from no
\* position distinct from the target does the distance increase.
C14_ExactlySpeedWhenFarEnough ==
    [][DistFine > 0 =>
          /\ DistFine >= EnemySpeed * Resolution
                => DistFine' = DistFine - EnemySpeed * Resolution
          /\ (Resolution <= DistFine /\ DistFine < EnemySpeed * Resolution)
                => DistFine' = EnemySpeed * Resolution - DistFine
          /\ DistFine < Resolution => DistFine' = DistFine
          /\ DistFine' <= DistFine]_vars

\* C14 witness: move_towards has been called and the enemy is closer to the
\* target than the clamp distance, on the far side of where it started.
C14_Witness ==
    /\ ticks >= 1
    /\ 0 < DistFine /\ DistFine < Resolution

(* ---------------- one bullet's flight on its own ---------------- *)
\* the player stands still at one of FlightStarts, the pointer is at one of
\* FlightOffsets from it, on its row or column, the field is empty or holds one
\* enemy, and one bullet makes up to FlightTicks calls of Bullet.move, the call
\* inside its constructor included; ticks counts these calls
FlightTicks == 6
FlightOffsets == {<<100, 0>>, <<-100, 0>>, <<0, 100>>, <<0, -100>>}
FlightStarts == {<<100, 100>>, <<105, 100>>, <<100, 105>>, <<95, 95>>}
FlightEnemies == {<<>>, <<[id |-> 1, x |-> 165, y |-> 100]>>}

InitFlight ==
    /\ \E s \in FlightStarts : px = s[1] /\ py = s[2]
    /\ mouse \in {<<px + o[1], py + o[2]>> : o \in FlightOffsets}
    /\ enemies \in FlightEnemies
    /\ items = {EnemyItem(enemies[i].id) : i \in DOMAIN enemies}
    /\ spawned = Len(enemies)
    /\ health = StartHealth
    /\ bullets = <<>>
    /\ pressed_keys = {}
    /\ is_game_over = FALSE
    /\ score = 0
    /\ score_text = 0
    /\ lives_text = StartHealth
    /\ bound = TRUE
    /\ timers = <<Timer("shoot", 0, ShootDelay)>>
    /\ pc = "idle"
    /\ snapshot = <<>>
    /\ idx = 0
    /\ overlays = 0
    /\ close_msgs = 0
    /\ shots = 0
    /\ ticks = 0
    /\ inputs = 0
    /\ error = "none"

\* the shoot tick that creates the bullet: Player.shoot and the append of line 171
FlightShoot ==
    /\ Fires("shoot")
    /\ LET r == shoot(Game, shots + 1, mouse[1], mouse[2])
       IN  /\ SetGame([r.g EXCEPT !.bullets = Append(@, r.b)])
           /\ timers' = IF r.again THEN <<Timer("move", r.b.id, MoveDelay)>> ELSE <<>>
    /\ shots' = shots + 1
    /\ ticks' = ticks + 1
    /\ UNCHANGED <<px, py, health, pressed_keys, mouse, is_game_over, lives_text,
                   bound, pc, snapshot, idx, overlays, close_msgs, spawned, inputs>>

\* the bullet's move callback
FlightMove ==
    /\ Fires("move")
    /\ ticks < FlightTicks
    /\ LET id == Head(timers).arg
           b == Find(bullets, id)
           r == move(Game, b)
       IN  IF id \in Ids(bullets)
           THEN /\ SetGame(r.g)
                /\ timers' = IF r.again THEN <<Timer("move", id, MoveDelay)>> ELSE <<>>
           ELSE /\ timers' = Tail(timers)
                /\ UNCHANGED <<enemies, bullets, items, score, score_text, error>>
    /\ ticks' = ticks + 1
    /\ UNCHANGED <<px, py, health, pressed_keys, mouse, is_game_over, lives_text,
                   bound, pc, snapshot, idx, overlays, close_msgs, spawned, shots,
                   inputs>>

NextFlight == FlightShoot \/ FlightMove

SpecFlight == InitFlight /\ [][NextFlight]_vars

CountCb(q, cb) == Cardinality({i \in DOMAIN q : q[i].cb = cb})

\* C16: a periodic task (update, shoot, spawn, a bullet's move) that runs with
\* the game over does not register itself again: the run takes its timer off the
\* queue and leaves one timer of that task fewer pending.
C16_PeriodicTasksStop ==
    [][(/\ pc = "idle" /\ is_game_over /\ timers # <<>>
        /\ Head(timers).cb \in {"update", "shoot", "spawn", "move"}
        /\ inputs' = inputs)
          => CountCb(timers', Head(timers).cb) < CountCb(timers, Head(timers).cb)]_vars

(* ---------------- the update loop with enemies walking up ---------------- *)
\* enemies start next to the player or two steps outside the collision radius,
\* so that an enemy's own move decides its collision check
LoopTicks == 2
LoopSpawnTicks == 1
LoopBullets == 1
LoopInputs == 1
LoopKeys == {"d"}
LoopSpawnPoints == {<<110, 100>>, <<122, 100>>}
LoopMousePoints == {<<200, 100>>}

InitLoop == InitWith(LoopSpawnPoints)

NextLoop ==
    \/ \E k \in LoopKeys : KeyPress(k, LoopInputs)
    \/ \E k \in LoopKeys : KeyRelease(k, LoopInputs)
    \/ \E p \in LoopMousePoints : track_mouse(p, LoopInputs)
    \/ UpdateBegin(LoopTicks)
    \/ UpdateEnemy
    \/ UpdateEnd
    \/ ShootTick(LoopBullets)
    \/ BulletMove
    \/ SpawnTick(LoopSpawnPoints, LoopSpawnTicks)
    \/ show_close_message

SpecLoop == InitLoop /\ [][NextLoop]_vars

\* no enemy that stays in the collection changes its position in the step
NoEnemyMoves ==
    \A i \in DOMAIN enemies : \A j \in DOMAIN enemies' :
       enemies'[j].id = enemies[i].id => enemies'[j] = enemies[i]

\* C17 as stated: within an update tick every enemy move comes before any
\* collision check, so once the first enemy of the tick has been checked no
\* enemy moves any more.
C17_PhasesOrdered ==
    [][(pc = "update" /\ idx > 1) => NoEnemyMoves]_vars

\* C17 amended: within an update tick the player moves first, in a step in which
\* no enemy moves, and not again; then the enemies are taken one at a time in
\* list order, each moved and then checked on its new position before the next
\* one moves; a step of the loop touches no other enemy.
C17_MoveThenCheckPerEnemy ==
    [][/\ pc = "update" => (px' = px /\ py' = py)
       /\ (px' # px \/ py' # py) => (pc = "idle" /\ pc' = "update" /\ enemies' = enemies)
       /\ (pc = "update" /\ idx <= Len(snapshot)) =>
             LET id == snapshot[idx].id
                 m == move_towards(Find(enemies, id), px, py)
             IN  /\ \A i \in DOMAIN enemies :
                       enemies[i].id # id =>
                          \E j \in DOMAIN enemies' : enemies'[j] = enemies[i]
                 /\ (health' = health - 1) <=> Collides(m)
                 /\ ~Collides(m) => (health' = health /\ Find(enemies', id) = m)
                 /\ Collides(m) => id \notin Ids(enemies')
      ]_vars

\* C17 witness: an update tick is past its second enemy, and an enemy that had
\* to walk up to the player has been found colliding.
C17_Witness ==
    /\ pc = "update" /\ idx > 2
    /\ ticks > 1
    /\ health < StartHealth

\* C18: between callbacks the canvas items of enemies and bullets are exactly the
\* items of the members of the two collections, one per member, and every bullet
\* in the bullet collection has alive = True.
C18_VisualsPaired ==
    pc = "idle" =>
        /\ items = {EnemyItem(id) : id \in Ids(enemies)}
                      \cup {BulletItem(id) : id \in Ids(bullets)}
        /\ Cardinality(Ids(enemies)) = Len(enemies)
        /\ Cardinality(Ids(bullets)) = Len(bullets)
        /\ \A i \in DOMAIN bullets : bullets[i].alive

\* C18 witness: a bullet that was in the collection has hit an enemy and is gone
\* with it, and other enemies are still on the field.
C18_Witness ==
    /\ pc = "idle"
    /\ shots = 1 /\ bullets = <<>> /\ score >= 1
    /\ BulletItem(1) \notin items
    /\ enemies # <<>>

\* C19: between callbacks the number of enemies created so far equals the size
\* of the enemy collection plus the score plus the health lost (3 - health).
C19_EnemyConservation ==
    pc = "idle" => spawned = Len(enemies) + score + (StartHealth - health)

\* C19 witness: two batches of enemies have been created, at least one enemy was
\* shot and at least one ran into the player.
C19_Witness ==
    /\ pc = "idle"
    /\ spawned = 2 * SpawnCount
    /\ score >= 1
    /\ health < StartHealth

\* C20: remove_enemy is only called on a member of the enemy collection: every
\* enemy the loop of an update tick has still to process is in the collection,
\* and no callback has raised the ValueError of list.remove.
C20_RemoveEnemyOnMembers ==
    /\ error = "none"
    /\ pc = "update" =>
          \A i \in idx..Len(snapshot) : snapshot[i].id \in Ids(enemies)

\* C20 witness: a bullet has removed an enemy, the update loop has removed
\* another in the current tick, and the loop has enemies left to process.
C20_Witness ==
    /\ pc = "update" /\ idx <= Len(snapshot)
    /\ score >= 1
    /\ Len(enemies) < Len(snapshot)
    /\ error = "none"

====
